---- MODULE Spec2Model ----
(***************************************************************************)
(* Credential lifecycle and resilient request subsystem of the            *)
(* Printssistant backend: OAuth2/PKCE routes (backend/src/index.ts), the  *)
(* token endpoint client (backend/src/canva-auth.ts), the encrypted token *)
(* store (TokenStorage) and the API client with its 401 interceptor       *)
(* (backend/src/canva-api.ts).                                            *)
(*                                                                        *)
(* Node runs every handler to its next await without interruption, so an  *)
(* action is one such run: from the arrival of a request or of a network  *)
(* response up to the next await or to the reply.                         *)
(***************************************************************************)
EXTENDS Integers, Sequences, FiniteSets, TLC

VARIABLES
    now,          \* Date.now(), in milliseconds
    configured,   \* which of CANVA_CLIENT_ID and CANVA_CLIENT_SECRET are set
    encKey,       \* TOKEN_ENCRYPTION_KEY the running process was started with
    tokensFile,   \* tokens.encrypted.json
    session,      \* the browser session kept by express-session
    attempts,     \* number of PKCE attempts started so far
    issued,       \* provider: number of grants (token pairs) issued so far
    invalidRT,    \* provider: refresh tokens it no longer accepts
    family,       \* provider: grant -> the authorization it descends from
    redeemed,     \* provider: attempts whose authorization code was redeemed
    procs,        \* the in-flight asynchronous route handlers
    authReply,    \* the reply of the last GET /auth/canva
    db,           \* JsonDb.data (db.json holds the same after every flush)
    posts,        \* the POST /api/exports handlers, by the id of their record
    apiReply,     \* the last reply of POST /api/jobs, or a 400 of POST /api/exports
    app,          \* the design editor app: App's, MainView's and ExportButton's state
    fan,          \* the concurrent getDesignDetails requests of filterPublicDesigns
    templateApp,  \* the design editor app that browses templates: App's state
    browser       \* TemplateBrowser's state and its requests in flight

serverVars == <<db, posts, apiReply, fan, templateApp, browser>>

vars == <<now, configured, encKey, tokensFile, session, attempts, issued,
          invalidRT, family, redeemed, procs, authReply, db, posts, apiReply, app, fan,
          templateApp, browser>>

----------------------------------------------------------------------------
(* Bounds of the model *)

MaxTicks == 1
MaxTokens == 3
MaxAttempts == 2
MaxIssuedAt == 3
MaxJobs == 2
MaxExports == 2
MaxDesigns == 2
MaxEarlier == 50
MaxTemplates == 2

(* Granularity of the modelled clock and the lifetimes the provider declares *)
TickMs == 300000
ExpiresInChoices == {300, 600}

Procs == {1, 2}
Grants == 1..MaxTokens
Attempts == 1..MaxAttempts
Keys == {"k1", "k2"}
IVs == {1}
\* answers to an outbound call; 0 is a call that got no response at all
\* (network error, timeout: error.response is undefined)
ApiStatuses == {0, 200, 401, 403, 404, 429, 500}

----------------------------------------------------------------------------
(* canva-auth.ts *)

bufferMs == 5 * 60 * 1000

\* the comparison is strict: a token exactly 5 minutes from expiry still counts as fresh
isTokenExpired_Strict(tokenData, t) == t + bufferMs > tokenData.expiresAt

\* every record counts as expired
isTokenExpired_Always(tokenData, t) == TRUE

\* isTokenExpired, with Date.now() passed as t
isTokenExpired(tokenData, t) == t + bufferMs >= tokenData.expiresAt

\* the TokenData built from an authorization_code response received at t
exchangeCodeForToken(data, t) ==
    [ present      |-> TRUE,
      accessToken  |-> data.access_token,
      refreshToken |-> data.refresh_token,
      expiresAt    |-> t + data.expires_in * 1000,
      userId       |-> IF data.user = "" THEN "unknown" ELSE data.user,
      scope        |-> data.scope ]

\* the TokenData built from a refresh_token response received at t
refreshAccessToken(data, refreshToken, t) ==
    [ present      |-> TRUE,
      accessToken  |-> data.access_token,
      refreshToken |-> IF data.refresh_token # 0 THEN data.refresh_token
                                                 ELSE refreshToken,
      expiresAt    |-> t + data.expires_in * 1000,
      userId       |-> IF data.user = "" THEN "unknown" ELSE data.user,
      scope        |-> data.scope ]

----------------------------------------------------------------------------
(* TokenStorage *)

ORG == "organization"
NoUser == ""
AccountIds == {ORG}

NoRecord == [present |-> FALSE]
NoTokens == [a \in AccountIds |-> NoRecord]
NoFile == [exists |-> FALSE]

\* AES-256-GCM, symbolically: a ciphertext opens only under its key and iv,
\* and the tag binds key, iv and ciphertext
Cipher(key, iv, text) == [k |-> key, iv |-> iv, pt |-> text, flipped |-> FALSE]
Tag(key, iv, ct) == [k |-> key, iv |-> iv, ct |-> ct, flipped |-> FALSE]

\* the members of a stored record; a member whose value is undefined (0, an
\* empty refresh token) is not written by JSON.stringify
RecordMembers == {"accessToken", "refreshToken", "expiresAt", "userId", "scope",
                  "createdAt", "lastRefreshedAt"}
Undefined(member, value) == member = "refreshToken" /\ value = 0

\* JSON.stringify(tokens): one object per account that has a record, holding
\* the record's defined members
JSONstringify(tokens) ==
    [a \in {x \in AccountIds : tokens[x].present} |->
        [m \in {x \in RecordMembers : ~Undefined(x, tokens[a][x])} |-> tokens[a][m]]]

\* reading a member of a parsed object; a missing member reads as undefined
Member(object, m) == IF m \in DOMAIN object THEN object[m] ELSE 0

\* JSON.parse(text), read the way TokenStorage reads it: tokens[userId] is
\* undefined for an account the text does not name
JSONparse(text) ==
    [a \in AccountIds |->
        IF a \in DOMAIN text
        THEN [ present         |-> TRUE,
               accessToken     |-> Member(text[a], "accessToken"),
               refreshToken    |-> Member(text[a], "refreshToken"),
               expiresAt       |-> Member(text[a], "expiresAt"),
               userId          |-> Member(text[a], "userId"),
               scope           |-> Member(text[a], "scope"),
               createdAt       |-> Member(text[a], "createdAt"),
               lastRefreshedAt |-> Member(text[a], "lastRefreshedAt") ]
        ELSE NoRecord]

\* the tag returned is not the tag of this encryption
encrypt_ForeignTag(text, key, iv) ==
    [ exists  |-> TRUE,
      iv      |-> iv,
      authTag |-> Tag(key, iv + 1, Cipher(key, iv, text)),
      ct      |-> Cipher(key, iv, text) ]

encrypt(text, key, iv) ==
    [ exists  |-> TRUE,
      iv      |-> iv,
      authTag |-> Tag(key, iv, Cipher(key, iv, text)),
      ct      |-> Cipher(key, iv, text) ]

\* decipher.final() throws unless the tag verifies
decryptThrows(file, key) == file.authTag # Tag(key, file.iv, file.ct)
decrypt(file, key) == file.ct.pt

loadTokens(file, key) ==
    IF ~file.exists THEN NoTokens
    ELSE IF decryptThrows(file, key) THEN NoTokens
    ELSE JSONparse(decrypt(file, key))

\* the JSON text is written to the file as it is
saveTokens_Plaintext(tokens, key, iv) ==
    [ exists  |-> TRUE,
      iv      |-> iv,
      authTag |-> Tag("", iv, JSONstringify(tokens)),
      ct      |-> JSONstringify(tokens) ]

saveTokens(tokens, key, iv) == encrypt(JSONstringify(tokens), key, iv)

Stamp(tokenData, created, refreshed) ==
    [ present         |-> TRUE,
      accessToken     |-> tokenData.accessToken,
      refreshToken    |-> tokenData.refreshToken,
      expiresAt       |-> tokenData.expiresAt,
      userId          |-> tokenData.userId,
      scope           |-> tokenData.scope,
      createdAt       |-> created,
      lastRefreshedAt |-> refreshed ]

storeToken(file, key, iv, userId, tokenData, t) ==
    saveTokens([loadTokens(file, key) EXCEPT ![userId] = Stamp(tokenData, t, t)],
               key, iv)

getToken(file, key, userId) == loadTokens(file, key)[userId]

\* updateToken goes on to write whether or not a record exists
updateTokenThrows_Never(file, key, userId) == FALSE

\* updateToken throws only when there is no credential file at all
updateTokenThrows_NoFile(file, key, userId) == ~file.exists

\* updateToken throws "No token found" (canva-auth.ts:305-309)
updateTokenThrows(file, key, userId) == loadTokens(file, key)[userId] = NoRecord

\* {...existing, ...tokenData, lastRefreshedAt}: createdAt is the existing one
updateToken(file, key, iv, userId, tokenData, t) ==
    saveTokens([loadTokens(file, key) EXCEPT
                   ![userId] = Stamp(tokenData,
                                     IF @ = NoRecord THEN 0 ELSE @.createdAt, t)],
               key, iv)

deleteToken(file, key, iv, userId) ==
    saveTokens([loadTokens(file, key) EXCEPT ![userId] = NoRecord], key, iv)

hasToken(file, key, userId) == loadTokens(file, key)[userId] # NoRecord

----------------------------------------------------------------------------
(* State *)

\* both CANVA_CLIENT_ID and CANVA_CLIENT_SECRET are set
Configured == [clientId |-> TRUE, clientSecret |-> TRUE]

NoSession == [oauthState |-> 0, codeVerifier |-> 0, userId |-> NoUser]

IdleProc ==
    [ kind    |-> "none",   \* "api": a route built on getCanvaClient; "callback"
      pc      |-> "idle",
      seenRT  |-> 0,        \* tokenData.refreshToken read by getCanvaClient
      rt      |-> 0,        \* refresh token carried by the refresh call in flight
      capRT   |-> 0,        \* refresh token captured by the client's onTokenRefresh
      via     |-> "",       \* getCanvaClient path taken: "near_expiry" or "fresh"
      omitted |-> FALSE,    \* the last refresh response carried no refresh_token
      tok     |-> 0,        \* client.defaults.headers.Authorization; once the
                            \* handler replied, kept only after a failed retry refresh
      hdr     |-> 0,        \* originalRequest.headers.Authorization
      retry   |-> FALSE,    \* originalRequest._retry
      sends   |-> 0,        \* times the request was sent
      cbCalls |-> 0,        \* times onTokenRefresh was invoked for the request
      non401  |-> FALSE,    \* some answer to the request was not a 401
      rfOk    |-> FALSE,    \* the 401-triggered refresh succeeded
      result  |-> "",
      cause   |-> "",
      forged  |-> FALSE,    \* callback: req.query.state is missing or is not the session's
      sess    |-> 0,        \* callback: session.oauthState on arrival
      ver     |-> 0,        \* callback: code verifier sent to the token endpoint
      exch    |-> 0,        \* callback: token exchanges sent
      wrote   |-> FALSE ]   \* callback: storeToken was called

\* db.json as the constructor seeds it, as far as jobs and exports go
EmptyDb == [exports |-> <<>>, jobs |-> <<>>]

ExportIds == 1..MaxExports
JobIds == 1..MaxJobs
NoSuchJob == MaxJobs + 1     \* a jobId that is no job's id

NoExport == [id |-> 0, jobId |-> 0, filePath |-> 0]
NoPost == [pc |-> "none", jobId |-> 0, record |-> NoExport]

NullJob == [id |-> 0, status |-> "", exports |-> <<>>]
NoReply == [route |-> "", status |-> 0, job |-> NullJob]

PrintJobs == {"business-card", "letterhead"}
NoJob == "null"

\* useState initial values of App, MainView and ExportButton
InitialApp ==
    [ view               |-> "welcome",
      selectedJob        |-> NoJob,
      completedChecks    |-> <<>>,
      showOptionalChecks |-> FALSE,   \* MainView
      status             |-> "idle" ] \* ExportButton

Designs == 1..MaxDesigns

NoRequest == [pc |-> "none", hdr |-> 0, retry |-> FALSE, rt |-> 0]

\* no handler is inside filterPublicDesigns
NoFan ==
    [ owner        |-> 0,     \* the handler that called filterPublicDesigns
      tok          |-> 0,     \* client.defaults.headers.Authorization
      capRT        |-> 0,     \* refresh token captured by the client's onTokenRefresh
      refreshCalls |-> 0,     \* refresh calls the client has sent
      reqs         |-> [d \in Designs |-> NoRequest] ]

Templates == 1..MaxTemplates

\* the selectedJob of the template-browsing App before a template is chosen
NoTemplateJob == [id |-> 0, category |-> "null"]

InitialTemplateApp ==
    [ view            |-> "welcome",
      selectedJob     |-> NoTemplateJob,
      completedChecks |-> <<>>,
      copying         |-> {} ]     \* the templates whose copyTemplate is awaited

NoFolder == [id |-> 0, root |-> "", sub |-> ""]

\* TemplateBrowser when it is mounted: fetchFolders has been called
InitialBrowser ==
    [ viewState          |-> "root-folders",
      allFolders         |-> {},
      rootFolders        |-> {},
      subfolders         |-> {},
      templates          |-> {},
      selectedRootFolder |-> NoFolder,
      selectedFolder     |-> NoFolder,
      loading            |-> TRUE,
      error              |-> "null",
      authError          |-> FALSE,
      fetchingFolders    |-> TRUE,   \* GET /api/folders is awaited
      fetchingTemplates  |-> {},     \* folders whose templates request is awaited
      copyingTemplate    |-> 0 ]     \* template whose copy request is awaited

InitServerAndApp ==
    /\ browser = InitialBrowser
    /\ templateApp = InitialTemplateApp
    /\ fan = NoFan
    /\ db = EmptyDb
    /\ posts = [e \in ExportIds |-> NoPost]
    /\ apiReply = NoReply
    /\ app = InitialApp

Init ==
    /\ InitServerAndApp
    /\ now = 0
    /\ configured \in [clientId : BOOLEAN, clientSecret : BOOLEAN]
    /\ encKey = "k1"
    /\ tokensFile = NoFile
    /\ session = NoSession
    /\ attempts = 0
    /\ issued = 0
    /\ invalidRT = {}
    /\ family = [g \in Grants |-> 0]
    /\ redeemed = {}
    /\ procs = [p \in Procs |-> IdleProc]
    /\ authReply = "none"

Stored == getToken(tokensFile, encKey, ORG)

\* the handler has replied; what is kept is what it observed and did
Done(p, result, cause) ==
    [procs[p] EXCEPT !.pc = "done", !.result = result, !.cause = cause,
                     !.rt = 0, !.capRT = 0, !.tok = 0, !.hdr = 0,
                     !.retry = FALSE, !.omitted = FALSE]

----------------------------------------------------------------------------
(* The provider's token endpoint, seen from the backend *)

TokenResponse(ok, grant, refresh_token, expires_in) ==
    [ ok            |-> ok,
      access_token  |-> grant,
      refresh_token |-> refresh_token,
      expires_in    |-> expires_in,
      scope         |-> "folder:read",
      user          |-> "u1" ]

Rejected == TokenResponse(FALSE, 0, 0, 0)

\* fetch rejects: no connection, DNS failure, reset; there is no response
NetworkError == [Rejected EXCEPT !.user = "fetch failed"]

FamilyOf(rt) == {g \in Grants : family[g] # 0 /\ family[g] = family[rt]}

\* The answers the provider can give to a refresh_token grant for rt, each
\* with the provider state it leaves: <<response, invalidRT', issued', family'>>
RefreshAnswers(rt) ==
    LET g == issued + 1
        fam == IF rt \in Grants THEN family[rt] ELSE 0
        fresh == [family EXCEPT ![g] = fam]
    IN  \* rejected: revoked or expired grant, provider error
        {<<Rejected, invalidRT, issued, family>>}
        \cup
        \* the request never reached the provider
        {<<NetworkError, invalidRT, issued, family>>}
        \cup
        \* a refresh token that was already used: reuse detection
        {<<Rejected, invalidRT \cup FamilyOf(rt), issued, family>> :
             x \in {y \in {rt} : y \in invalidRT}}
        \cup
        \* rotation: a new pair, the old refresh token is spent
        {<<TokenResponse(TRUE, g, g, e), invalidRT \cup {rt}, g, fresh>> :
             e \in {x \in ExpiresInChoices :
                      rt \in Grants /\ rt \notin invalidRT /\ issued < MaxTokens}}
        \cup
        \* no rotation: a new access token only
        {<<TokenResponse(TRUE, g, 0, e), invalidRT, g, fresh>> :
             e \in {x \in ExpiresInChoices :
                      rt \in Grants /\ rt \notin invalidRT /\ issued < MaxTokens}}

\* the successful answers again, as a provider sends them that leaves out
\* scope, user, or both (data.scope and data.user are then undefined)
RefreshAnswersOmitting(rt) ==
    { <<[a[1] EXCEPT !.scope = IF o[1] THEN "" ELSE @,
                     !.user = IF o[2] THEN "" ELSE @], a[2], a[3], a[4]>> :
        a \in {x \in RefreshAnswers(rt) : x[1].ok},
        o \in {<<TRUE, FALSE>>, <<FALSE, TRUE>>, <<TRUE, TRUE>>} }

\* The answers to an authorization_code grant made with the verifier of
\* attempt a; an authorization code is redeemed at most once, and the
\* response may carry no refresh_token (RFC 6749 section 5.1: OPTIONAL)
ExchangeAnswers(a) ==
    LET g == issued + 1
    IN  {<<Rejected, invalidRT, issued, family>>}
        \cup
        {<<TokenResponse(TRUE, g, g, e), invalidRT, g, [family EXCEPT ![g] = g]>> :
             e \in {x \in ExpiresInChoices : a \notin redeemed /\ issued < MaxTokens}}
        \cup
        {<<TokenResponse(TRUE, g, 0, e), invalidRT, g, [family EXCEPT ![g] = g]>> :
             e \in {x \in ExpiresInChoices : a \notin redeemed /\ issued < MaxTokens}}

----------------------------------------------------------------------------
(* getCanvaClient and the routes built on it (GET /api/folders, ...) *)

\* getCanvaClient passes the access token where the refresh token belongs
GcRefreshArg_AccessToken(tokenData) == tokenData.accessToken

\* the refresh token getCanvaClient passes to refreshAccessToken (index.ts:91)
GcRefreshArg(tokenData) == tokenData.refreshToken

\* the interceptor refreshes on every 401, whether or not the request was retried
ShouldRefresh_IgnoresRetry(status, retry) == status = 401

\* the interceptor refreshes on every failure of a request not yet retried
ShouldRefresh_AnyFailure(status, retry) == status # 200 /\ ~retry

\* the interceptor's test for refreshing and re-sending (canva-api.ts:90)
ShouldRefresh(status, retry) == status = 401 /\ ~retry

\* The route calls getCanvaClient: no record -> null -> 503; near expiry -> the
\* refresh call is sent and awaited; otherwise the client is built and the
\* route's request is sent with the stored access token.
ApiStart(p) ==
    /\ procs[p].pc = "idle"
    /\ LET tokenData == getToken(tokensFile, encKey, ORG)
       IN procs' = [procs EXCEPT ![p] =
            IF tokenData = NoRecord
            THEN [Done(p, "503", "no_record") EXCEPT !.kind = "api"]
            ELSE IF isTokenExpired(tokenData, now)
            THEN [@ EXCEPT !.kind = "api", !.pc = "gc_refresh",
                           !.via = "near_expiry",
                           !.seenRT = tokenData.refreshToken,
                           !.rt = GcRefreshArg(tokenData)]
            ELSE [@ EXCEPT !.kind = "api", !.pc = "api_wait",
                           !.via = "fresh",
                           !.seenRT = tokenData.refreshToken,
                           !.capRT = tokenData.refreshToken,
                           !.tok = tokenData.accessToken,
                           !.hdr = tokenData.accessToken,
                           !.sends = 1]]
    /\ UNCHANGED <<serverVars, app>>
    /\ UNCHANGED <<now, configured, encKey, tokensFile, session, attempts,
                   issued, invalidRT, family, redeemed, authReply>>

\* the client is given the refresh token as its bearer token
GcClientToken_RefreshToken(newTokenData) == newTokenData.refreshToken

\* the access token of the client returned after a refresh (index.ts:95)
GcClientToken(newTokenData) == newTokenData.accessToken

\* The refresh awaited by getCanvaClient settles with one of the answers
\* (index.ts:91-105)
GcRefreshSettles(p, answers) ==
    /\ procs[p].pc = "gc_refresh"
    /\ \E ans \in answers, iv \in IVs :
         LET data == ans[1]
             newTokenData == refreshAccessToken(data, procs[p].rt, now)
         IN /\ invalidRT' = ans[2]
            /\ issued' = ans[3]
            /\ family' = ans[4]
            /\ IF ~data.ok
               THEN /\ procs' = [procs EXCEPT ![p] =
                         Done(p, "503", IF data = NetworkError
                                        THEN "refresh_network"
                                        ELSE "refresh_failed")]
                    /\ UNCHANGED tokensFile
               ELSE IF updateTokenThrows(tokensFile, encKey, ORG)
               THEN /\ procs' = [procs EXCEPT ![p] = Done(p, "503", "update_failed")]
                    /\ UNCHANGED tokensFile
               ELSE /\ tokensFile' = updateToken(tokensFile, encKey, iv, ORG,
                                                 newTokenData, now)
                    /\ procs' = [procs EXCEPT ![p] =
                         [@ EXCEPT !.pc = "api_wait",
                                   !.rt = 0,
                                   !.omitted = (data.refresh_token = 0),
                                   !.capRT = newTokenData.refreshToken,
                                   !.tok = GcClientToken(newTokenData),
                                   !.hdr = GcClientToken(newTokenData),
                                   !.sends = 1]]
    /\ UNCHANGED <<serverVars, app>>
    /\ UNCHANGED <<now, configured, encKey, session, attempts, redeemed, authReply>>

\* the provider's answer carries scope and user
GcRefreshResp(p) == GcRefreshSettles(p, RefreshAnswers(procs[p].rt))

\* the provider's answer succeeds without scope, without user, or without both
GcRefreshRespOmitting(p) == GcRefreshSettles(p, RefreshAnswersOmitting(procs[p].rt))

\* An answer to the client's request reaches the response interceptor
\* (canva-api.ts:84-104); the re-sent request passes through it again
ApiResp(p) ==
    /\ procs[p].pc = "api_wait"
    /\ \E status \in ApiStatuses :
         procs' = [procs EXCEPT ![p] =
            IF status = 200
            THEN [Done(p, "200", "") EXCEPT !.non401 = TRUE]
            ELSE IF ShouldRefresh(status, procs[p].retry)
            THEN [@ EXCEPT !.retry = TRUE,
                           !.non401 = (@ \/ status # 401),
                           !.cbCalls = @ + 1,
                           !.rt = procs[p].capRT,
                           !.pc = "rf_wait"]
            ELSE [Done(p, "500", IF status = 401 THEN "auth_failed" ELSE "remote_failed")
                    EXCEPT !.non401 = (@ \/ status # 401)]]
    /\ UNCHANGED <<serverVars, app>>
    /\ UNCHANGED <<now, configured, encKey, tokensFile, session, attempts,
                   issued, invalidRT, family, redeemed, authReply>>

\* the interceptor re-sends with the token the request already carried
InterceptorToken_Keeps(oldToken, newToken) == oldToken

\* the token the interceptor puts on the request it re-sends and on the
\* client's defaults (canva-api.ts:94-95)
InterceptorToken(oldToken, newToken) == newToken

\* onTokenRefresh never rejects
onTokenRefreshThrows_Never(data, file, key) == FALSE

\* onTokenRefresh rejects: refreshAccessToken or updateToken threw
\* (index.ts:111-112)
onTokenRefreshThrows(data, file, key) ==
    ~data.ok \/ updateTokenThrows(file, key, ORG)

\* onTokenRefresh settles (index.ts:96-100, 110-114), then canva-api.ts:94-98
RfResp(p) ==
    /\ procs[p].pc = "rf_wait"
    /\ \E ans \in RefreshAnswers(procs[p].rt), iv \in IVs :
         LET data == ans[1]
             refreshed == refreshAccessToken(data, procs[p].rt, now)
         IN /\ invalidRT' = ans[2]
            /\ issued' = ans[3]
            /\ family' = ans[4]
            /\ IF onTokenRefreshThrows(data, tokensFile, encKey)
               THEN /\ procs' = [procs EXCEPT ![p] =
                         [Done(p, "500", "retry_refresh_failed")
                            EXCEPT !.tok = procs[p].tok]]
                    /\ UNCHANGED tokensFile
               ELSE /\ tokensFile' = updateToken(tokensFile, encKey, iv, ORG,
                                                 refreshed, now)
                    /\ procs' = [procs EXCEPT ![p] =
                         [@ EXCEPT !.pc = "api_wait",
                                   !.rt = 0,
                                   !.rfOk = TRUE,
                                   !.omitted = (data.refresh_token = 0),
                                   !.hdr = InterceptorToken(@, refreshed.accessToken),
                                   !.tok = InterceptorToken(@, refreshed.accessToken),
                                   !.sends = @ + 1]]
    /\ UNCHANGED <<serverVars, app>>
    /\ UNCHANGED <<now, configured, encKey, session, attempts, redeemed, authReply>>

\* The reply has been delivered; the handler's slot is free again
Recycle(p) ==
    /\ procs[p].pc = "done"
    /\ procs' = [procs EXCEPT ![p] = IdleProc]
    /\ UNCHANGED <<serverVars, app>>
    /\ UNCHANGED <<now, configured, encKey, tokensFile, session, attempts,
                   issued, invalidRT, family, redeemed, authReply>>

----------------------------------------------------------------------------
(* OAuth routes *)

\* the callback only tests that a state parameter is present
StateValid_PresenceOnly(state, sessionState) == state # 0

\* the callback's CSRF test passes (index.ts:174 negated)
StateValid(state, sessionState) == state # 0 /\ state = sessionState

\* query parameters a callback can carry: 0 is a missing parameter, a state
\* beyond Attempts is one this server never issued
CallbackStates == 0..(MaxAttempts + 1)
CallbackCodes == {0, 1}

\* the flow is refused only when both settings are missing
AuthCanvaRefuses_BothMissing(conf) == ~conf.clientId /\ ~conf.clientSecret

\* GET /auth/canva answers 500 (index.ts:147)
AuthCanvaRefuses(conf) == ~conf.clientId \/ ~conf.clientSecret

\* GET /auth/canva
AuthCanva ==
    /\ IF AuthCanvaRefuses(configured)
       THEN /\ authReply' = "auth_500"
            /\ UNCHANGED <<session, attempts>>
       ELSE /\ attempts < MaxAttempts
            /\ attempts' = attempts + 1
            /\ session' = [session EXCEPT !.oauthState = attempts + 1,
                                          !.codeVerifier = attempts + 1]
            /\ authReply' = "auth_redirect"
    /\ UNCHANGED <<serverVars, app>>
    /\ UNCHANGED <<now, configured, encKey, tokensFile, issued,
                   invalidRT, family, redeemed, procs>>

\* GET /auth/callback up to its await (index.ts:169-190)
CallbackStart(p) ==
    /\ procs[p].pc = "idle"
    /\ \E state \in CallbackStates, code \in CallbackCodes :
         LET sessionState == session.oauthState
             codeVerifier == session.codeVerifier
             arrived == [procs[p] EXCEPT !.kind = "callback",
                                         !.forged = (state = 0 \/ state # sessionState),
                                         !.sess = sessionState]
         IN IF ~StateValid(state, sessionState)
            THEN procs' = [procs EXCEPT ![p] =
                        [arrived EXCEPT !.pc = "done", !.result = "400_state"]]
            ELSE IF code = 0
            THEN procs' = [procs EXCEPT ![p] =
                        [arrived EXCEPT !.pc = "done", !.result = "400_code"]]
            ELSE IF codeVerifier = 0
            THEN procs' = [procs EXCEPT ![p] =
                        [arrived EXCEPT !.pc = "done", !.result = "400_verifier"]]
            ELSE procs' = [procs EXCEPT ![p] =
                        [arrived EXCEPT !.pc = "cb_exchange",
                                        !.ver = codeVerifier,
                                        !.exch = @ + 1]]
    /\ UNCHANGED <<serverVars, app>>
    /\ UNCHANGED <<now, configured, encKey, tokensFile, session, attempts,
                   issued, invalidRT, family, redeemed, authReply>>

\* exchangeCodeForToken returns token data whatever the endpoint answered
ExchangeThrows_Never(data) == FALSE

\* exchangeCodeForToken throws on a response that is not ok (canva-auth.ts:101-104)
ExchangeThrows(data) == ~data.ok

\* the token exchange settles (index.ts:190-228)
CallbackResp(p) ==
    /\ procs[p].pc = "cb_exchange"
    /\ \E ans \in ExchangeAnswers(procs[p].ver), iv \in IVs :
         LET data == ans[1]
             tokenData == exchangeCodeForToken(data, now)
         IN /\ invalidRT' = ans[2]
            /\ issued' = ans[3]
            /\ family' = ans[4]
            /\ redeemed' = IF data.ok THEN redeemed \cup {procs[p].ver} ELSE redeemed
            /\ IF ExchangeThrows(data)
               THEN /\ procs' = [procs EXCEPT ![p] = Done(p, "500", "exchange_failed")]
                    /\ UNCHANGED <<tokensFile, session>>
               ELSE /\ tokensFile' = storeToken(tokensFile, encKey, iv, ORG,
                                                tokenData, now)
                    /\ session' = [session EXCEPT !.oauthState = 0,
                                                  !.codeVerifier = 0]
                    /\ procs' = [procs EXCEPT ![p] =
                         [Done(p, "200", "") EXCEPT !.wrote = TRUE]]
    /\ UNCHANGED <<serverVars, app>>
    /\ UNCHANGED <<now, configured, encKey, attempts, authReply>>

\* GET /auth/status: the reply's authenticated field (index.ts:234-250)
AuthStatus(file, key) == getToken(file, key, ORG) # NoRecord

\* POST /auth/logout
Logout ==
    /\ LET userId == session.userId
       IN IF userId # NoUser /\ hasToken(tokensFile, encKey, userId)
          THEN \E iv \in IVs : tokensFile' = deleteToken(tokensFile, encKey, iv, userId)
          ELSE UNCHANGED tokensFile
    /\ session' = NoSession
    /\ UNCHANGED <<serverVars, app>>
    /\ UNCHANGED <<now, configured, encKey, attempts, issued,
                   invalidRT, family, redeemed, procs, authReply>>

\* tokenStorage.deleteToken("organization") (canva-auth.ts:317-327), as a
\* caller of the store would invoke it; POST /auth/logout, the only caller in
\* index.ts, passes session.userId
DeleteToken ==
    /\ \E iv \in IVs : tokensFile' = deleteToken(tokensFile, encKey, iv, ORG)
    /\ UNCHANGED <<serverVars, app>>
    /\ UNCHANGED <<now, configured, encKey, session, attempts, issued, invalidRT,
                   family, redeemed, procs, authReply>>

----------------------------------------------------------------------------
(* GET /api/folders/:folderId/templates after listFolderDesigns:           *)
(* filterPublicDesigns sends one getDesignDetails per design, all through  *)
(* the handler's client, and awaits them together                          *)

\* listFolderDesigns is answered 200 with n designs; the handler goes on to
\* filterPublicDesigns, which sends the n requests before it awaits
FilterStart(p) ==
    /\ procs[p].pc = "api_wait"
    /\ fan.owner = 0
    /\ \E n \in Designs :
          fan' = [ owner        |-> p,
                   tok          |-> procs[p].tok,
                   capRT        |-> procs[p].capRT,
                   refreshCalls |-> 0,
                   reqs         |-> [d \in Designs |->
                                        IF d <= n
                                        THEN [pc |-> "wait", hdr |-> procs[p].tok,
                                              retry |-> FALSE, rt |-> 0]
                                        ELSE NoRequest] ]
    /\ procs' = [procs EXCEPT ![p].pc = "filtering", ![p].non401 = TRUE]
    /\ UNCHANGED <<now, configured, encKey, tokensFile, session, attempts, issued,
                   invalidRT, family, redeemed, authReply, db, posts, apiReply, app,
                   templateApp, browser>>

\* an answer to the request for design d reaches the response interceptor
\* (canva-api.ts:84-104); an error ends in filterPublicDesigns' catch
DetailResp(d) ==
    /\ fan.reqs[d].pc = "wait"
    /\ \E status \in ApiStatuses :
          fan' = IF status = 200
                 THEN [fan EXCEPT !.reqs[d].pc = "ok"]
                 ELSE IF ShouldRefresh(status, fan.reqs[d].retry)
                 THEN [fan EXCEPT !.reqs[d].retry = TRUE,
                                   !.reqs[d].rt = fan.capRT,
                                   !.reqs[d].pc = "refresh",
                                   !.refreshCalls = @ + 1]
                 ELSE [fan EXCEPT !.reqs[d].pc = "failed"]
    /\ UNCHANGED <<now, configured, encKey, tokensFile, session, attempts, issued,
                   invalidRT, family, redeemed, procs, authReply, db, posts,
                   apiReply, app,
                   templateApp, browser>>

\* the onTokenRefresh invoked for design d settles (index.ts:96-100, 110-114),
\* then canva-api.ts:94-98
DetailRefreshResp(d) ==
    /\ fan.reqs[d].pc = "refresh"
    /\ \E ans \in RefreshAnswers(fan.reqs[d].rt), iv \in IVs :
         LET data == ans[1]
             refreshed == refreshAccessToken(data, fan.reqs[d].rt, now)
         IN /\ invalidRT' = ans[2]
            /\ issued' = ans[3]
            /\ family' = ans[4]
            /\ IF onTokenRefreshThrows(data, tokensFile, encKey)
               THEN /\ fan' = [fan EXCEPT !.reqs[d].pc = "failed"]
                    /\ UNCHANGED tokensFile
               ELSE /\ tokensFile' = updateToken(tokensFile, encKey, iv, ORG,
                                                 refreshed, now)
                    /\ fan' = [fan EXCEPT
                                 !.reqs[d].pc = "wait",
                                 !.reqs[d].rt = 0,
                                 !.reqs[d].hdr = InterceptorToken(@, refreshed.accessToken),
                                 !.tok = InterceptorToken(@, refreshed.accessToken)]
    /\ UNCHANGED <<now, configured, encKey, session, attempts, redeemed, procs,
                   authReply, db, posts, apiReply, app,
                   templateApp, browser>>

\* Promise.all resolves: every request has settled; the route replies with
\* the designs that could be read and are shared publicly
FilterDone(p) ==
    /\ fan.owner = p
    /\ \A d \in Designs : fan.reqs[d].pc \in {"none", "ok", "failed"}
    /\ procs' = [procs EXCEPT ![p] = Done(p, "200", "")]
    /\ fan' = NoFan
    /\ UNCHANGED <<now, configured, encKey, tokensFile, session, attempts, issued,
                   invalidRT, family, redeemed, authReply, db, posts, apiReply, app,
                   templateApp, browser>>

----------------------------------------------------------------------------
(* JsonDb (storage.ts) and the jobs and exports routes *)

ExportsKept == 5000

\* Array.prototype.slice(0, n)
Take(s, n) == SubSeq(s, 1, IF Len(s) < n THEN Len(s) ELSE n)

\* position of the job Array.prototype.find returns, 0 if it returns undefined
FindJob(data, jobId) ==
    LET hits == {i \in 1..Len(data.jobs) : data.jobs[i].id = jobId}
    IN  IF hits = {} THEN 0 ELSE CHOOSE i \in hits : \A k \in hits : i <= k

getJob(data, jobId) ==
    IF FindJob(data, jobId) = 0 THEN NullJob ELSE data.jobs[FindJob(data, jobId)]

addExport(data, rec) == [data EXCEPT !.exports = Take(<<rec>> \o @, ExportsKept)]

addJob(data, job) == [data EXCEPT !.jobs = <<job>> \o @]

attachExportToJob_StoredOnly(data, jobId, rec) ==
    LET i == FindJob(data, jobId)
    IN  IF i = 0 \/ rec.filePath = 0 THEN data
        ELSE [data EXCEPT !.jobs[i].exports = Append(@, rec),
                          !.jobs[i].status = "artwork_ready"]

attachExportToJob(data, jobId, rec) ==
    LET i == FindJob(data, jobId)
    IN  IF i = 0 THEN data
        ELSE [data EXCEPT !.jobs[i].exports = Append(@, rec),
                          !.jobs[i].status = "artwork_ready"]

\* listExports(limit = 50)
DefaultLimit == 50

listExports(data, limit) == Take(data.exports, limit)

\* the record Array.prototype.find returns from the list, NoExport if undefined
FindExport(list, id) ==
    LET hits == {i \in 1..Len(list) : list[i].id = id}
    IN  IF hits = {} THEN NoExport
        ELSE list[CHOOSE i \in hits : \A k \in hits : i <= k]

\* GET /api/exports/:id/download: 404 unless the record is found and has a
\* file path, else the file is sent
downloadStatus(data, id) ==
    LET rec == FindExport(listExports(data, DefaultLimit), id)
    IN  IF rec = NoExport \/ rec.filePath = 0 THEN 404 ELSE 200

\* POST /api/jobs: JobCreateSchema.parse throws on an invalid body
PostJob ==
    /\ \E valid \in BOOLEAN :
          IF valid
            THEN /\ Len(db.jobs) < MaxJobs
                 /\ LET job == [ id      |-> Len(db.jobs) + 1,   \* crypto.randomUUID()
                                 status  |-> "artwork_pending",
                                 exports |-> <<>> ]
                    IN  /\ db' = addJob(db, job)
                        /\ apiReply' = [route |-> "POST /api/jobs", status |-> 200, job |-> job]
            ELSE /\ apiReply' = [route |-> "POST /api/jobs", status |-> 400, job |-> NullJob]
                 /\ UNCHANGED db
    /\ UNCHANGED <<now, configured, encKey, tokensFile, session, attempts, issued,
                   invalidRT, family, redeemed, procs, authReply, posts, app, fan,
                   templateApp, browser>>

\* the jobId members a poster can send: none, the id of a job, any other string
PostedJobIds == {0, NoSuchJob} \cup {db.jobs[i].id : i \in 1..Len(db.jobs)}

\* POST /api/exports up to the call of downloadExportFile
PostExport ==
    /\ \E valid \in BOOLEAN, jobId \in PostedJobIds :
          IF valid
            THEN \E e \in ExportIds :
                    /\ posts[e].pc = "none"
                    /\ \A k \in ExportIds : k < e => posts[k].pc # "none"   \* crypto.randomUUID()
                    /\ posts' = [posts EXCEPT ![e] = [pc |-> "downloading", jobId |-> jobId,
                                                      record |-> NoExport]]
                    /\ UNCHANGED apiReply
            ELSE /\ apiReply' = [route |-> "POST /api/exports", status |-> 400, job |-> NullJob]
                 /\ UNCHANGED posts
    /\ UNCHANGED <<now, configured, encKey, tokensFile, session, attempts, issued,
                   invalidRT, family, redeemed, procs, authReply, db, app, fan,
                   templateApp, browser>>

\* POST /api/exports from the settling of downloadExportFile: .then when the
\* file was stored, .catch when the download failed
DownloadSettled(e) ==
    /\ posts[e].pc = "downloading"
    /\ \E stored \in BOOLEAN :
          LET rec == [ id       |-> e,
                       jobId    |-> posts[e].jobId,
                       filePath |-> IF stored THEN e ELSE 0 ]
              added == addExport(db, rec)
          IN  /\ db' = IF rec.jobId # 0 THEN attachExportToJob(added, rec.jobId, rec)
                                        ELSE added
              /\ posts' = [posts EXCEPT ![e].pc = "replied", ![e].record = rec]
    /\ UNCHANGED <<now, configured, encKey, tokensFile, session, attempts, issued,
                   invalidRT, family, redeemed, procs, authReply, apiReply, app, fan,
                   templateApp, browser>>

\* GET /api/exports/:id/download
DownloadExport ==
    /\ \E id \in {db.exports[i].id : i \in 1..Len(db.exports)} \cup {0} :
          apiReply' = [ route  |-> "GET /api/exports/:id/download",
                        status |-> downloadStatus(db, id),
                        job    |-> NullJob ]
    /\ UNCHANGED <<now, configured, encKey, tokensFile, session, attempts, issued,
                   invalidRT, family, redeemed, procs, authReply, db, posts, app, fan,
                   templateApp, browser>>

----------------------------------------------------------------------------
(* The design editor app: App (intents/design_editor/app.tsx), MainView,  *)
(* SuccessState and ExportButton                                          *)

\* MANUAL_CHECKS: two required checks, four optional ones
MANUAL_CHECKS ==
    << [id |-> "bleed-check",      required |-> TRUE],
       [id |-> "safe-zone-check",  required |-> TRUE],
       [id |-> "color-mode-check", required |-> FALSE],
       [id |-> "rich-black-check", required |-> FALSE],
       [id |-> "font-check",       required |-> FALSE],
       [id |-> "spell-check",      required |-> FALSE] >>

CheckIds == {MANUAL_CHECKS[i].id : i \in DOMAIN MANUAL_CHECKS}

IsRequired(c) == c.required

getRequiredChecks == SelectSeq(MANUAL_CHECKS, IsRequired)

\* Array.prototype.includes
Includes(array, x) == \E i \in DOMAIN array : array[i] = x

allRequiredComplete_CountsAny(completedChecks) ==
    Len(completedChecks) >= Len(getRequiredChecks)

\* MainView: requiredCompleted === requiredChecks.length
allRequiredComplete(completedChecks) ==
    LET done(c) == Includes(completedChecks, c.id)
    IN  Len(SelectSeq(getRequiredChecks, done)) = Len(getRequiredChecks)

\* what App renders
Screen(a) ==
    CASE a.view = "welcome"    -> "WelcomeView"
      [] a.view = "job-select" -> "JobSelector"
      [] a.view = "main" /\ a.selectedJob = NoJob -> "No job selected"
      [] a.view = "main" /\ allRequiredComplete(a.completedChecks) -> "SuccessState"
      [] a.view = "main" -> "Checklist"
      [] OTHER -> "WelcomeView"

\* what ExportButton, mounted inside SuccessState, renders
ExportButtonShows(a) ==
    CASE Screen(a) # "SuccessState" -> "nothing"
      [] a.status \in {"preparing", "exporting"} -> "LoadingIndicator"
      [] a.status = "error" -> "Try Again"
      [] a.status = "success" -> "Your PDF is ready!"
      [] OTHER -> "Download Print-Ready PDF"

handleGetStarted(a) == [a EXCEPT !.view = "job-select"]

handleSelectJob(a, job) == [a EXCEPT !.selectedJob = job, !.view = "main"]

handleBack_Forward(a) == [a EXCEPT !.view = "main"]

handleBack(a) == [a EXCEPT !.view = "welcome"]

handleChangeJob(a) == [a EXCEPT !.view = "job-select"]

handleStartOver(a) ==
    [a EXCEPT !.view = "welcome", !.selectedJob = NoJob, !.completedChecks = <<>>]

handleToggleCheck(a, id) ==
    LET other(checkId) == checkId # id
    IN  [a EXCEPT !.completedChecks =
                     IF Includes(@, id) THEN SelectSeq(@, other) ELSE Append(@, id)]

\* the state of MainView and ExportButton lasts as long as they are mounted
Unmounted(a) ==
    [a EXCEPT !.showOptionalChecks = IF Screen(a) \in {"SuccessState", "Checklist"} THEN @ ELSE FALSE,
              !.status = IF Screen(a) = "SuccessState" THEN @ ELSE "idle"]

AppStep(a) ==
    /\ app' = Unmounted(a)
    /\ UNCHANGED <<now, configured, encKey, tokensFile, session, attempts, issued,
                   invalidRT, family, redeemed, procs, authReply, serverVars>>

\* WelcomeView: Get Started
GetStarted ==
    /\ Screen(app) = "WelcomeView"
    /\ AppStep(handleGetStarted(app))

\* JobSelector: a job's button
SelectJob(job) ==
    /\ Screen(app) = "JobSelector"
    /\ AppStep(handleSelectJob(app, job))

\* JobSelector: Back
Back ==
    /\ Screen(app) = "JobSelector"
    /\ AppStep(handleBack(app))

\* MainView: Change, Choose a different size
ChangeJob ==
    /\ Screen(app) = "Checklist"
    /\ AppStep(handleChangeJob(app))

\* SuccessState: Start Over with Different Job
StartOver ==
    /\ Screen(app) = "SuccessState"
    /\ AppStep(handleStartOver(app))

\* MainView: Show / Hide recommended checks
ToggleOptionalChecks ==
    /\ Screen(app) = "Checklist"
    /\ AppStep([app EXCEPT !.showOptionalChecks = ~@])

\* ManualCheckItem: the checkbox of a rendered check
ToggleCheck(i) ==
    /\ Screen(app) = "Checklist"
    /\ MANUAL_CHECKS[i].required \/ app.showOptionalChecks
    /\ AppStep(handleToggleCheck(app, MANUAL_CHECKS[i].id))

\* ExportButton: Download Print-Ready PDF (enabled when requestExport is
\* supported) or Try Again, up to the await of requestExport
Export ==
    /\ \E canExport \in BOOLEAN :
          /\ \/ ExportButtonShows(app) = "Download Print-Ready PDF" /\ canExport
             \/ ExportButtonShows(app) = "Try Again"
          /\ AppStep([app EXCEPT !.status = IF canExport THEN "exporting" ELSE "error"])

\* ExportButton: requestExport settles: aborted by the user, a file, or an error
ExportSettled ==
    /\ ExportButtonShows(app) = "LoadingIndicator"
    /\ \E outcome \in {"idle", "success", "error"} :
          AppStep([app EXCEPT !.status = outcome])

\* ExportButton: the 5 s timer set after a successful export
ExportTimer ==
    /\ ExportButtonShows(app) = "Your PDF is ready!"
    /\ AppStep([app EXCEPT !.status = "idle"])

----------------------------------------------------------------------------
(* The design editor app that browses templates: App                      *)
(* (intents/design_editor/app.tsx, second version)                        *)

createJobFromTemplate(template) == [id |-> template, category |-> "custom"]

\* what App renders
TemplateScreen(a) ==
    CASE a.view = "welcome"         -> "WelcomeView"
      [] a.view = "template-browse" -> "TemplateBrowser"
      [] a.view = "main" /\ a.selectedJob = NoTemplateJob -> "No template selected"
      [] a.view = "main" /\ allRequiredComplete(a.completedChecks) -> "SuccessState"
      [] a.view = "main" -> "Checklist"
      [] OTHER -> "WelcomeView"

handleGetStartedBrowse(a) == [a EXCEPT !.view = "template-browse"]

handleBackToWelcome(a) == [a EXCEPT !.view = "welcome"]

\* handleSelectTemplate after its await: the copy succeeded
handleSelectTemplate(a, template) ==
    [a EXCEPT !.selectedJob = createJobFromTemplate(template), !.view = "main"]

\* the selection is dropped and the main view kept
handleChangeTemplate_StaysInMain(a) == [a EXCEPT !.selectedJob = NoTemplateJob]

handleChangeTemplate(a) ==
    [a EXCEPT !.view = "template-browse", !.selectedJob = NoTemplateJob]

handleStartOverBrowse(a) ==
    [a EXCEPT !.view = "welcome", !.selectedJob = NoTemplateJob,
              !.completedChecks = <<>>]

TemplateAppStep(a) ==
    /\ templateApp' = a
    /\ UNCHANGED <<now, configured, encKey, tokensFile, session, attempts, issued,
                   invalidRT, family, redeemed, procs, authReply, db, posts,
                   apiReply, app, fan, browser>>

\* WelcomeView: Get Started
GetStartedBrowse ==
    /\ TemplateScreen(templateApp) = "WelcomeView"
    /\ TemplateAppStep(handleGetStartedBrowse(templateApp))

\* TemplateBrowser: onBack
BackToWelcome ==
    /\ TemplateScreen(templateApp) = "TemplateBrowser"
    /\ TemplateAppStep(handleBackToWelcome(templateApp))

\* TemplateBrowser: onSelectTemplate, up to the await of copyTemplate
SelectTemplate(template) ==
    /\ TemplateScreen(templateApp) = "TemplateBrowser"
    /\ template \notin templateApp.copying
    /\ TemplateAppStep([templateApp EXCEPT !.copying = @ \cup {template}])

\* copyTemplate settles: the rest of handleSelectTemplate when it resolved,
\* its catch when it rejected
CopySettled(template) ==
    /\ template \in templateApp.copying
    /\ \E resolved \in BOOLEAN :
          LET a == [templateApp EXCEPT !.copying = @ \ {template}]
          IN  TemplateAppStep(IF resolved THEN handleSelectTemplate(a, template) ELSE a)

\* MainView: Change, Choose a different size
ChangeTemplate ==
    /\ TemplateScreen(templateApp) = "Checklist"
    /\ TemplateAppStep(handleChangeTemplate(templateApp))

\* SuccessState: Start Over with Different Job
StartOverBrowse ==
    /\ TemplateScreen(templateApp) = "SuccessState"
    /\ TemplateAppStep(handleStartOverBrowse(templateApp))

\* ManualCheckItem: the checkbox of a required check
ToggleTemplateCheck(i) ==
    /\ TemplateScreen(templateApp) = "Checklist"
    /\ MANUAL_CHECKS[i].required
    /\ TemplateAppStep(handleToggleCheck(templateApp, MANUAL_CHECKS[i].id))

----------------------------------------------------------------------------
(* TemplateBrowser (components/TemplateBrowser.tsx)                        *)

\* the folders GET /api/folders returns: a folder named "A > x" is the
\* subfolder x of the root folder A
CanvaFolders ==
    { [id |-> 1, root |-> "A", sub |-> "x"],
      [id |-> 2, root |-> "A", sub |-> "y"],
      [id |-> 3, root |-> "A", sub |-> ""],
      [id |-> 4, root |-> "B", sub |-> ""] }

FolderIds == {f.id : f \in CanvaFolders}

\* !f.name.includes(' > ')
IsRootFolder(f) == f.sub = ""

\* f.name.startsWith(folder.name + ' > ')
IsSubfolderOf(f, folder) == IsRootFolder(folder) /\ f.root = folder.root /\ f.sub # ""

\* the templates GET /api/folders/:folderId/templates returns for a folder
TemplatesOf(folderId) == {[id |-> 10 * folderId + 1, folderId |-> folderId]}

BrowserStep(b) ==
    /\ browser' = b
    /\ UNCHANGED <<now, configured, encKey, tokensFile, session, attempts, issued,
                   invalidRT, family, redeemed, procs, authReply, db, posts,
                   apiReply, app, fan, templateApp>>

\* fetchTemplates up to its await
fetchTemplates(b, folderId) ==
    [b EXCEPT !.loading = TRUE, !.error = "null", !.viewState = "templates",
              !.fetchingTemplates = @ \cup {folderId}]

\* fetchFolders from its await: GET /api/folders is answered
FoldersResp ==
    /\ browser.fetchingFolders
    /\ \E outcome \in {"503", "failed", "ok"}, data \in {{}, CanvaFolders} :
          BrowserStep(
            IF outcome = "503"
            THEN [browser EXCEPT !.authError = TRUE, !.error = "not authenticated",
                                 !.allFolders = {}, !.rootFolders = {},
                                 !.loading = FALSE, !.fetchingFolders = FALSE]
            ELSE IF outcome = "failed"
            THEN [browser EXCEPT !.error = "failed",
                                 !.allFolders = {}, !.rootFolders = {},
                                 !.loading = FALSE, !.fetchingFolders = FALSE]
            ELSE [browser EXCEPT !.allFolders = data,
                                 !.rootFolders = {f \in data : IsRootFolder(f)},
                                 !.error = "null",
                                 !.loading = FALSE, !.fetchingFolders = FALSE])

handleRootFolderClick(b, folder) ==
    LET folderSubfolders == {f \in b.allFolders : IsSubfolderOf(f, folder)}
    IN  IF folderSubfolders # {}
        THEN [b EXCEPT !.selectedRootFolder = folder,
                       !.subfolders = folderSubfolders,
                       !.viewState = "subfolders"]
        ELSE fetchTemplates([b EXCEPT !.selectedRootFolder = folder,
                                      !.selectedFolder = folder], folder.id)

handleSubfolderClick(b, folder) ==
    fetchTemplates([b EXCEPT !.selectedFolder = folder], folder.id)

handleBackToRootFolders(b) ==
    [b EXCEPT !.viewState = "root-folders", !.selectedRootFolder = NoFolder,
              !.selectedFolder = NoFolder, !.subfolders = {}, !.templates = {}]

handleBackToSubfolders(b) ==
    [b EXCEPT !.viewState = "subfolders", !.selectedFolder = NoFolder,
              !.templates = {}]

\* root folders view: a folder's button, rendered when not loading
RootFolderClick(folder) ==
    /\ browser.viewState = "root-folders"
    /\ ~browser.loading
    /\ folder \in browser.rootFolders
    /\ BrowserStep(handleRootFolderClick(browser, folder))

\* subfolders view: a subfolder's button
SubfolderClick(folder) ==
    /\ browser.viewState = "subfolders"
    /\ folder \in browser.subfolders
    /\ BrowserStep(handleSubfolderClick(browser, folder))

\* fetchTemplates from its await: the templates request for a folder is answered
TemplatesResp(folderId) ==
    /\ folderId \in browser.fetchingTemplates
    /\ \E outcome \in {"503", "failed", "ok"}, data \in {{}, TemplatesOf(folderId)} :
          BrowserStep(
            IF outcome = "503"
            THEN [browser EXCEPT !.authError = TRUE, !.error = "not authenticated",
                                 !.templates = {}, !.loading = FALSE,
                                 !.fetchingTemplates = @ \ {folderId}]
            ELSE IF outcome = "failed"
            THEN [browser EXCEPT !.error = "failed",
                                 !.templates = {}, !.loading = FALSE,
                                 !.fetchingTemplates = @ \ {folderId}]
            ELSE [browser EXCEPT !.templates = data, !.error = "null",
                                 !.loading = FALSE,
                                 !.fetchingTemplates = @ \ {folderId}])

\* subfolders view: Back to Categories; templates view: Back, when the folder
\* was reached without subfolders
BackToRootFolders ==
    /\ \/ browser.viewState = "subfolders"
       \/ /\ browser.viewState = "templates"
          /\ ~(browser.selectedRootFolder # NoFolder /\ browser.subfolders # {})
    /\ BrowserStep(handleBackToRootFolders(browser))

\* templates view: Back, when the folder was reached through its root folder
BackToSubfolders ==
    /\ browser.viewState = "templates"
    /\ browser.selectedRootFolder # NoFolder
    /\ browser.subfolders # {}
    /\ BrowserStep(handleBackToSubfolders(browser))

\* templates view: a template's card, rendered when not loading;
\* handleTemplateCopy up to its await
TemplateCopy(template) ==
    /\ browser.viewState = "templates"
    /\ ~browser.loading
    /\ template \in browser.templates
    /\ BrowserStep([browser EXCEPT !.viewState = "copying", !.error = "null",
                                   !.copyingTemplate = template.id])

\* handleTemplateCopy from its await: the copy request is answered
TemplateCopyResp ==
    /\ browser.copyingTemplate # 0
    /\ \E outcome \in {"503", "failed", "ok"} :
          BrowserStep(
            IF outcome = "503"
            THEN [browser EXCEPT !.authError = TRUE, !.error = "not authenticated",
                                 !.viewState = "templates", !.copyingTemplate = 0]
            ELSE IF outcome = "failed"
            THEN [browser EXCEPT !.error = "failed", !.viewState = "templates",
                                 !.copyingTemplate = 0]
            ELSE [browser EXCEPT !.viewState = "root-folders",
                                 !.selectedRootFolder = NoFolder,
                                 !.selectedFolder = NoFolder,
                                 !.copyingTemplate = 0])

----------------------------------------------------------------------------
(* Environment *)

Tick ==
    /\ now + TickMs <= MaxTicks * TickMs
    /\ now' = now + TickMs
    /\ UNCHANGED <<serverVars, app>>
    /\ UNCHANGED <<configured, encKey, tokensFile, session, attempts, issued, invalidRT, family, redeemed, procs, authReply>>

\* a byte of the credential file is flipped on disk: in the iv, the
\* authentication tag or the ciphertext
CorruptFile ==
    /\ tokensFile.exists
    /\ \E k \in Keys : ~decryptThrows(tokensFile, k)
    /\ \E part \in {"iv", "authTag", "ct"} :
         tokensFile' =
            IF part = "iv" THEN [tokensFile EXCEPT !.iv = 0 - @]
            ELSE IF part = "authTag" THEN [tokensFile EXCEPT !.authTag.flipped = ~@]
            ELSE [tokensFile EXCEPT !.ct.flipped = ~@]
    /\ UNCHANGED <<serverVars, app>>
    /\ UNCHANGED <<now, configured, encKey, session, attempts, issued, invalidRT, family, redeemed, procs, authReply>>

\* the operator restarts the idle server with another TOKEN_ENCRYPTION_KEY;
\* the in-memory sessions are lost
Restart ==
    /\ \A p \in Procs : procs[p].pc = "idle"
    /\ \E k \in Keys \ {encKey} : encKey' = k
    /\ session' = NoSession
    /\ UNCHANGED <<serverVars, app>>
    /\ UNCHANGED <<now, configured, tokensFile, attempts, issued,
                   invalidRT, family, redeemed, procs, authReply>>

Next ==
    \/ \E p \in Procs : ApiStart(p)
    \/ \E p \in Procs : GcRefreshResp(p)
    \/ \E p \in Procs : ApiResp(p)
    \/ \E p \in Procs : RfResp(p)
    \/ \E p \in Procs : Recycle(p)
    \/ AuthCanva
    \/ \E p \in Procs : CallbackStart(p)
    \/ \E p \in Procs : CallbackResp(p)
    \/ Logout
    \/ Tick

Spec == Init /\ [][Next]_vars

\* the requests of one instant on a disk that can be damaged and under an
\* encryption key the operator can change
NextStore ==
    \/ \E p \in Procs : ApiStart(p)
    \/ \E p \in Procs : GcRefreshResp(p)
    \/ \E p \in Procs : ApiResp(p)
    \/ \E p \in Procs : RfResp(p)
    \/ \E p \in Procs : Recycle(p)
    \/ AuthCanva
    \/ \E p \in Procs : CallbackStart(p)
    \/ \E p \in Procs : CallbackResp(p)
    \/ Logout
    \/ CorruptFile
    \/ Restart

SpecStore == Init /\ [][NextStore]_vars

\* every route, the clock standing still: a record whose provider lifetime
\* equals the 5-minute buffer is near expiry from the moment it is stored
NextInstant ==
    \/ \E p \in Procs : ApiStart(p)
    \/ \E p \in Procs : GcRefreshResp(p)
    \/ \E p \in Procs : ApiResp(p)
    \/ \E p \in Procs : RfResp(p)
    \/ \E p \in Procs : Recycle(p)
    \/ AuthCanva
    \/ \E p \in Procs : CallbackStart(p)
    \/ \E p \in Procs : CallbackResp(p)
    \/ Logout

SpecInstant == Init /\ [][NextInstant]_vars

\* the authorization routes alone
NextOAuth ==
    \/ AuthCanva
    \/ \E p \in Procs : CallbackStart(p)
    \/ \E p \in Procs : CallbackResp(p)
    \/ \E p \in Procs : Recycle(p)
    \/ Logout

SpecOAuth == Init /\ [][NextOAuth]_vars

\* the server as the first completed authorization leaves it (GET /auth/canva,
\* one callback, its exchange answered at time 0), or never authorized
InitClient ==
    /\ Init
       \/ /\ now = 0
          /\ configured = Configured
          /\ encKey = "k1"
          /\ \E e \in ExpiresInChoices, iv \in IVs :
               tokensFile = storeToken(NoFile, "k1", iv, ORG,
                               exchangeCodeForToken(TokenResponse(TRUE, 1, 1, e), 0), 0)
          /\ session = NoSession
          /\ attempts = 1
          /\ issued = 1
          /\ invalidRT = {}
          /\ family = [g \in Grants |-> IF g = 1 THEN 1 ELSE 0]
          /\ redeemed = {1}
          /\ procs = [p \in Procs |-> IdleProc]
          /\ authReply = "auth_redirect"
          /\ InitServerAndApp

\* the routes built on getCanvaClient alone
NextClient ==
    \/ \E p \in Procs : ApiStart(p)
    \/ \E p \in Procs : GcRefreshResp(p)
    \/ \E p \in Procs : ApiResp(p)
    \/ \E p \in Procs : RfResp(p)
    \/ \E p \in Procs : Recycle(p)
    \/ Tick

SpecClient == InitClient /\ [][NextClient]_vars

\* isTokenExpired on records around the buffer boundary: a record issued at
\* some millisecond with a lifetime a second under, at, or a second over the
\* buffer, read at once or up to a second later
IssuedAts == 0..MaxIssuedAt
BoundaryExpiresIn == {299, 300, 301}
ReadDelays == {0, 1, 999, 1000, 1001}

InitExpiry ==
    /\ InitServerAndApp
    /\ configured = Configured
    /\ encKey = "k1"
    /\ \E t0 \in IssuedAts, e \in BoundaryExpiresIn, d \in ReadDelays, iv \in IVs :
          /\ now = t0 + d
          /\ tokensFile = storeToken(NoFile, "k1", iv, ORG,
                              exchangeCodeForToken(TokenResponse(TRUE, 1, 1, e), t0), t0)
    /\ session = NoSession
    /\ attempts = 1
    /\ issued = 1
    /\ invalidRT = {}
    /\ family = [g \in Grants |-> IF g = 1 THEN 1 ELSE 0]
    /\ redeemed = {1}
    /\ procs = [p \in Procs |-> IdleProc]
    /\ authReply = "auth_redirect"

NextExpiry == \E p \in Procs : ApiStart(p)

SpecExpiry == InitExpiry /\ [][NextExpiry]_vars

\* the routes built on getCanvaClient, on a disk that can be damaged
NextClientDisk ==
    \/ \E p \in Procs : ApiStart(p)
    \/ \E p \in Procs : GcRefreshResp(p)
    \/ \E p \in Procs : ApiResp(p)
    \/ \E p \in Procs : RfResp(p)
    \/ \E p \in Procs : Recycle(p)
    \/ Tick
    \/ CorruptFile

SpecClientDisk == InitClient /\ [][NextClientDisk]_vars

\* axios is created with timeout: 30000 (canva-api.ts:80): an outbound call
\* that got no answer is failed by the client itself, so the interceptor or
\* the caller always gets to run. The fetch calls of exchangeCodeForToken and
\* refreshAccessToken are given no timeout and no abort signal, so nothing in
\* the code makes their awaits end.
AxiosTimeout == \A p \in Procs : WF_vars(ApiResp(p))

SpecLive == Init /\ [][NextInstant]_vars /\ AxiosTimeout

\* the jobs and exports routes over the JSON database
NextJobs ==
    \/ PostJob
    \/ PostExport
    \/ \E e \in ExportIds : DownloadSettled(e)

InitJobs == Init /\ configured = Configured

SpecJobs == InitJobs /\ [][NextJobs]_vars

\* the design editor app alone
NextApp ==
    \/ GetStarted
    \/ \E job \in PrintJobs : SelectJob(job)
    \/ Back
    \/ ChangeJob
    \/ StartOver
    \/ ToggleOptionalChecks
    \/ \E i \in DOMAIN MANUAL_CHECKS : ToggleCheck(i)
    \/ Export
    \/ ExportSettled
    \/ ExportTimer

SpecApp == InitJobs /\ [][NextApp]_vars

\* the routes built on getCanvaClient, with the organization's record deleted
\* through the store at any moment
NextDelete ==
    \/ \E p \in Procs : ApiStart(p)
    \/ \E p \in Procs : GcRefreshResp(p)
    \/ \E p \in Procs : ApiResp(p)
    \/ \E p \in Procs : RfResp(p)
    \/ \E p \in Procs : Recycle(p)
    \/ Tick
    \/ DeleteToken

SpecDelete == InitClient /\ [][NextDelete]_vars

\* every caller of a store mutation, one request per handler slot: the
\* authorization callback (storeToken), the two refresh paths (updateToken)
\* and deleteToken, as time passes, from the first completed authorization
NextMutations ==
    \/ \E p \in Procs : ApiStart(p)
    \/ \E p \in Procs : GcRefreshResp(p)
    \/ \E p \in Procs : ApiResp(p)
    \/ \E p \in Procs : RfResp(p)
    \/ AuthCanva
    \/ \E p \in Procs : CallbackStart(p)
    \/ \E p \in Procs : CallbackResp(p)
    \/ DeleteToken
    \/ Tick

InitAuthorized == InitClient /\ issued = 1

SpecMutations == InitAuthorized /\ [][NextMutations]_vars

\* the routes built on getCanvaClient, the folder-templates route with its
\* concurrent detail requests among them, from the first authorization
NextFilter ==
    \/ \E p \in Procs : ApiStart(p)
    \/ \E p \in Procs : GcRefreshResp(p)
    \/ \E p \in Procs : ApiResp(p)
    \/ \E p \in Procs : RfResp(p)
    \/ \E p \in Procs : FilterStart(p)
    \/ \E d \in Designs : DetailResp(d)
    \/ \E d \in Designs : DetailRefreshResp(d)
    \/ \E p \in Procs : FilterDone(p)

SpecFilter == InitAuthorized /\ [][NextFilter]_vars

\* the routes built on getCanvaClient, against a provider whose refresh
\* answers may leave out scope and user
NextFields ==
    \/ \E p \in Procs : ApiStart(p)
    \/ \E p \in Procs : GcRefreshResp(p)
    \/ \E p \in Procs : GcRefreshRespOmitting(p)
    \/ \E p \in Procs : ApiResp(p)
    \/ \E p \in Procs : RfResp(p)
    \/ \E p \in Procs : Recycle(p)
    \/ Tick

SpecFields == InitClient /\ [][NextFields]_vars

\* the exports db.json holds when the server is started: n records of
\* earlier runs, newest first, each with its stored file
EarlierExports(n) ==
    [i \in 1..n |-> [ id       |-> MaxExports + 1 + (n - i + 1),
                      jobId    |-> 0,
                      filePath |-> MaxExports + 1 + (n - i + 1) ]]

\* the server started over a database that already holds exports
InitDownload ==
    /\ \E n \in (MaxEarlier - 1)..MaxEarlier :
          db = [EmptyDb EXCEPT !.exports = EarlierExports(n)]
    /\ fan = NoFan
    /\ templateApp = InitialTemplateApp
    /\ browser = InitialBrowser
    /\ posts = [e \in ExportIds |-> NoPost]
    /\ apiReply = NoReply
    /\ app = InitialApp
    /\ now = 0
    /\ configured = Configured
    /\ encKey = "k1"
    /\ tokensFile = NoFile
    /\ session = NoSession
    /\ attempts = 0
    /\ issued = 0
    /\ invalidRT = {}
    /\ family = [g \in Grants |-> 0]
    /\ redeemed = {}
    /\ procs = [p \in Procs |-> IdleProc]
    /\ authReply = "none"

\* the jobs and exports routes and the download route
NextDownload ==
    \/ PostJob
    \/ PostExport
    \/ \E e \in ExportIds : DownloadSettled(e)
    \/ DownloadExport

SpecDownload == InitDownload /\ [][NextDownload]_vars

\* the navigation of both versions of App: Get Started, select, Change, Back,
\* Start Over, the required checks, and the template copy settling at any moment
NextViews ==
    \/ GetStarted
    \/ \E job \in PrintJobs : SelectJob(job)
    \/ Back
    \/ ChangeJob
    \/ StartOver
    \/ \E i \in DOMAIN MANUAL_CHECKS : ToggleCheck(i)
    \/ GetStartedBrowse
    \/ BackToWelcome
    \/ \E template \in Templates : SelectTemplate(template)
    \/ \E template \in Templates : CopySettled(template)
    \/ ChangeTemplate
    \/ StartOverBrowse
    \/ \E i \in DOMAIN MANUAL_CHECKS : ToggleTemplateCheck(i)

SpecViews == InitJobs /\ [][NextViews]_vars

\* TemplateBrowser from the moment it is mounted
NextBrowser ==
    \/ FoldersResp
    \/ \E folder \in CanvaFolders : RootFolderClick(folder)
    \/ \E folder \in CanvaFolders : SubfolderClick(folder)
    \/ \E folderId \in FolderIds : TemplatesResp(folderId)
    \/ BackToRootFolders
    \/ BackToSubfolders
    \/ \E folderId \in FolderIds : \E template \in TemplatesOf(folderId) : TemplateCopy(template)
    \/ TemplateCopyResp

SpecBrowser == InitJobs /\ [][NextBrowser]_vars

----------------------------------------------------------------------------
(* Properties *)

ApiProcs == {p \in Procs : procs[p].kind = "api"}
CallbackProcs == {p \in Procs : procs[p].kind = "callback"}

\* the step is a refresh whose result p wrote with updateToken
RefreshWrote(p) ==
    /\ procs[p].pc \in {"gc_refresh", "rf_wait"}
    /\ procs'[p].pc = "api_wait"

\* C1: a request whose every answer is a 401 invokes the refresh callback
\* exactly once and, the refresh having succeeded, is re-sent exactly once
\* and then fails; no request ever sees a second refresh or a third send.
C1_SingleRetryBudget ==
    \A p \in ApiProcs :
        /\ procs[p].cbCalls <= 1
        /\ procs[p].sends <= 2
        /\ (procs[p].pc = "done" /\ procs[p].sends >= 1 /\ ~procs[p].non401)
              => /\ procs[p].cbCalls = 1
                 /\ procs[p].result = "500"
                 /\ procs[p].sends = (IF procs[p].rfOk THEN 2 ELSE 1)

C1_Witness ==
    \E p \in ApiProcs :
        /\ procs[p].pc = "done" /\ ~procs[p].non401 /\ procs[p].rfOk
        /\ procs[p].sends = 2 /\ procs[p].cbCalls = 1 /\ procs[p].result = "500"

\* C2: every getCanvaClient call that observes near-expiry has its own refresh
\* call in flight, carrying the refresh token it read from the store, and that
\* call is answered whatever the other requests are doing.
C2_OwnRefreshCall ==
    \A p \in ApiProcs :
        procs[p].pc = "gc_refresh"
           => /\ procs[p].via = "near_expiry"
              /\ procs[p].rt = procs[p].seenRT
              /\ ENABLED GcRefreshResp(p)

\* two near-expiry requests read the same refresh token, one refresh rotated
\* it, the other was refused, and the store is left with a refresh token the
\* provider no longer accepts
C2_Witness ==
    \E p, q \in ApiProcs :
        /\ p # q
        /\ procs[p].via = "near_expiry" /\ procs[q].via = "near_expiry"
        /\ procs[p].seenRT = procs[q].seenRT
        /\ procs[p].cause = "refresh_failed"
        /\ procs[q].pc = "api_wait"
        /\ Stored # NoRecord
        /\ Stored.refreshToken # procs[q].seenRT
        /\ Stored.refreshToken \in invalidRT

\* C3: every successful refresh leaves a stored expiresAt strictly greater
\* than the one stored just before its update.
C3_ExpiryStrictlyIncreases ==
    [][\A p \in Procs :
          RefreshWrote(p) => Stored'.expiresAt > Stored.expiresAt]_vars

\* C4: a refresh whose response carries no refresh token leaves the stored
\* refresh token as it was just before the update.
C4_RefreshTokenRetained ==
    [][\A p \in Procs :
          (RefreshWrote(p) /\ procs'[p].omitted)
             => Stored'.refreshToken = Stored.refreshToken]_vars

\* C5: a callback whose state is missing or is not the session's pending state
\* is answered 400 without a token exchange and without a store write.
C5_ForgedStateRejected ==
    \A p \in CallbackProcs :
        procs[p].forged
           => /\ procs[p].pc = "done"
              /\ procs[p].result = "400_state"
              /\ procs[p].exch = 0
              /\ ~procs[p].wrote

C5_Witness ==
    \E p \in CallbackProcs :
        /\ procs[p].forged /\ procs[p].sess # 0
        /\ procs[p].pc = "done" /\ procs[p].result = "400_state"

\* C6: once a callback was processed while an attempt was pending, the session
\* no longer holds that attempt's state and code verifier.
C6_AttemptDiscarded ==
    \A p \in CallbackProcs :
        (procs[p].pc = "done" /\ procs[p].sess # 0)
           => /\ session.oauthState # procs[p].sess
              /\ session.codeVerifier # procs[p].sess

\* C7: no two token exchanges are ever made with the code verifier of one
\* attempt.
C7_OneExchangePerAttempt ==
    \A p, q \in CallbackProcs :
        (p # q /\ procs[p].exch = 1 /\ procs[q].exch = 1)
           => procs[p].ver # procs[q].ver

\* C8: a credential file that cannot be decrypted is never read as "no record".
C8_CorruptNeverNoRecord ==
    (tokensFile.exists /\ decryptThrows(tokensFile, encKey))
       => /\ getToken(tokensFile, encKey, ORG) # NoRecord
          /\ AuthStatus(tokensFile, encKey)

\* C9: when POST /auth/logout has completed, the organization has no record
\* and /auth/status reports authenticated = false.
C9_LogoutClearsRecord ==
    [][Logout => (Stored' = NoRecord /\ ~AuthStatus(tokensFile', encKey'))]_vars

\* C10: "no record" and "refresh failed" are never reported to the caller with
\* the same result.
C10_DistinctOutcomes ==
    \A p, q \in ApiProcs :
        (/\ procs[p].pc = "done" /\ procs[p].cause = "no_record"
         /\ procs[q].pc = "done" /\ procs[q].cause = "refresh_failed")
           => procs[p].result # procs[q].result

\* C11: in getCanvaClient's near-expiry path a refresh the provider rejected
\* and a refresh that failed on the network are reported to the caller with
\* different results.
C11_NetworkFailureDistinct ==
    \A p, q \in ApiProcs :
        (/\ procs[p].pc = "done" /\ procs[p].cause = "refresh_failed"
         /\ procs[q].pc = "done" /\ procs[q].cause = "refresh_network")
           => procs[p].result # procs[q].result

\* C12: once the provider has rejected a refresh made from the stored record,
\* and for as long as that record is the stored one, /auth/status does not
\* report the account as authenticated and no request holds a client that
\* getCanvaClient built from the record without refreshing it.
C12_RejectedRecordUnusable ==
    \A p \in ApiProcs :
        (/\ procs[p].pc = "done" /\ procs[p].cause = "refresh_failed"
         /\ Stored # NoRecord
         /\ Stored.refreshToken = procs[p].seenRT)
           => /\ ~AuthStatus(tokensFile, encKey)
              /\ \A q \in ApiProcs :
                    ~(/\ procs[q].pc = "api_wait" /\ procs[q].via = "fresh"
                      /\ procs[q].tok = Stored.accessToken)

\* C13: when an outbound call is answered with a failure other than a 401
\* (403, 404, 429, 5xx, no response), that step ends the request with the
\* failure passed to the caller: the refresh callback is not invoked, the
\* request is not re-sent, no token-endpoint call is made and the store is
\* left as it was.
C13_OtherFailuresNotRefreshed ==
    [][\A p \in Procs :
          (/\ procs[p].pc = "api_wait" /\ ~procs[p].non401
           /\ procs'[p].non401 /\ procs'[p].result # "200")
             => /\ procs'[p].pc = "done"
                /\ procs'[p].result = "500"
                /\ procs'[p].cause = "remote_failed"
                /\ procs'[p].cbCalls = procs[p].cbCalls
                /\ procs'[p].sends = procs[p].sends
                /\ tokensFile' = tokensFile
                /\ issued' = issued
                /\ invalidRT' = invalidRT]_vars

C13_Witness ==
    \E p \in ApiProcs :
        /\ procs[p].pc = "done" /\ procs[p].cause = "remote_failed"
        /\ procs[p].non401 /\ procs[p].cbCalls = 0 /\ procs[p].sends = 1

\* the step is a callback whose token exchange succeeded and which stored
\* the record
ExchangeStored(p) ==
    /\ procs[p].pc = "cb_exchange"
    /\ procs'[p].pc = "done"
    /\ procs'[p].result = "200"
    /\ procs'[p].wrote
    /\ issued' = issued + 1

\* C14: a record comes into existence only in the step of a callback whose
\* authorization-code exchange succeeded; no rejected callback, failed
\* exchange, refresh, updateToken or logout creates one, and a record that
\* exists was preceded by a redeemed authorization code.
C14_RecordOnlyFromExchange ==
    [][/\ (tokensFile' # tokensFile /\ Stored = NoRecord /\ Stored' # NoRecord)
            => \E p \in Procs : ExchangeStored(p)
       /\ redeemed' = {} => Stored' = NoRecord]_vars

\* a record exists while a callback was rejected, an exchange failed and a
\* refresh was written
C14_Witness ==
    /\ Stored # NoRecord
    /\ \E p \in ApiProcs :
          procs[p].via = "near_expiry" /\ procs[p].pc = "api_wait"
    /\ \E p \in CallbackProcs :
          procs[p].pc = "done" /\ procs[p].result \in {"400_state", "500"}

\* C15: every stored record has a non-empty refresh token.
C15_RefreshTokenNeverEmpty ==
    Stored # NoRecord => Stored.refreshToken # 0

\* C16: a getCanvaClient call that found the record near expiry and returns a
\* client has made one refresh, has written its result with updateToken and
\* carries the new access token, all in the step that ends its await; and a
\* getCanvaClient call that finds the stored record more than 5 minutes from
\* expiry sends its request without any refresh.
C16_RefreshUpdateReturn ==
    [][\A p \in Procs :
          /\ (procs[p].pc = "gc_refresh" /\ procs'[p].pc = "api_wait")
                => /\ issued' = issued + 1
                   /\ Stored' # NoRecord
                   /\ Stored'.accessToken = issued'
                   /\ Stored'.lastRefreshedAt = now
                   /\ procs'[p].tok = issued'
                   /\ procs'[p].sends = 1
                   /\ procs'[p].cbCalls = 0
          /\ (/\ procs[p].pc = "idle" /\ procs'[p].kind = "api"
              /\ Stored # NoRecord /\ now + 300000 < Stored.expiresAt)
                => /\ procs'[p].pc = "api_wait"
                   /\ procs'[p].rt = 0
                   /\ procs'[p].tok = Stored.accessToken
                   /\ issued' = issued
                   /\ tokensFile' = tokensFile]_vars

\* one call refreshed the near-expiry record and a following call, made while
\* the new token is outside the buffer, carries that token without a refresh
C16_Witness ==
    \E p, q \in ApiProcs :
        /\ procs[p].via = "near_expiry" /\ procs[p].pc = "api_wait"
        /\ procs[q].via = "fresh" /\ procs[q].pc = "api_wait"
        /\ procs[q].cbCalls = 0
        /\ procs[q].tok = procs[p].tok
        /\ Stored.accessToken = procs[p].tok
        /\ now + 300000 < Stored.expiresAt

\* C17: the step in which a route calls getCanvaClient leaves the credential
\* file and the provider untouched; with no record it ends at once with the
\* null outcome, no request and no refresh call sent; with a record more than
\* 5 minutes from expiry it sends the request with exactly the stored access
\* token and no refresh call.
C17_NoRefreshNoWrite ==
    [][\A p \in Procs :
          (procs[p].pc = "idle" /\ procs'[p].kind = "api")
             => /\ (Stored = NoRecord \/ now + 300000 < Stored.expiresAt)
                   => /\ tokensFile' = tokensFile
                      /\ issued' = issued
                      /\ invalidRT' = invalidRT
                      /\ procs'[p].rt = 0
                      /\ procs'[p].pc # "gc_refresh"
                /\ Stored = NoRecord
                   => /\ procs'[p].pc = "done"
                      /\ procs'[p].result = "503"
                      /\ procs'[p].cause = "no_record"
                      /\ procs'[p].sends = 0
                /\ (Stored # NoRecord /\ now + 300000 < Stored.expiresAt)
                   => /\ procs'[p].pc = "api_wait"
                      /\ procs'[p].tok = Stored.accessToken
                      /\ procs'[p].hdr = Stored.accessToken
                      /\ procs'[p].sends = 1]_vars

\* one call found no record, a later one a record far from expiry
C17_Witness ==
    \E p, q \in ApiProcs :
        /\ procs[p].pc = "done" /\ procs[p].cause = "no_record"
        /\ procs[q].pc = "api_wait" /\ procs[q].via = "fresh"
        /\ procs[q].cbCalls = 0
        /\ procs[q].tok = Stored.accessToken

\* C18: isTokenExpired is true exactly when now + 300000 >= expiresAt, so it
\* is true 299000 ms and 300000 ms before expiry and false 301000 ms before
\* it, and getCanvaClient takes its refresh branch exactly in the first case.
C18_BufferBoundary ==
    /\ isTokenExpired(Stored, now) <=> (now + 300000 >= Stored.expiresAt)
    /\ Stored.expiresAt = now + 299000 => isTokenExpired(Stored, now)
    /\ Stored.expiresAt = now + 300000 => isTokenExpired(Stored, now)
    /\ Stored.expiresAt = now + 301000 => ~isTokenExpired(Stored, now)
    /\ \A p \in ApiProcs :
          (procs[p].pc = "gc_refresh") <=> (now + 300000 >= Stored.expiresAt)

\* getCanvaClient read a record exactly 300000 ms from expiry and refreshes
C18_Witness ==
    /\ Stored.expiresAt = now + 300000
    /\ \E p \in ApiProcs : procs[p].pc = "gc_refresh"

\* C19: while the client identifier or the client secret is not set, GET
\* /auth/canva has only ever answered with its error: no attempt was created,
\* the session holds no state and no code verifier, nothing was redirected,
\* and no callback has reached or can reach the token exchange.
C19_UnconfiguredFailsFast ==
    (~configured.clientId \/ ~configured.clientSecret)
       => /\ attempts = 0
          /\ session.oauthState = 0
          /\ session.codeVerifier = 0
          /\ authReply \in {"none", "auth_500"}
          /\ issued = 0
          /\ Stored = NoRecord
          /\ \A p \in CallbackProcs :
                /\ procs[p].pc = "done"
                /\ procs[p].result = "400_state"
                /\ procs[p].exch = 0
                /\ ~procs[p].wrote

\* only the secret is missing; GET /auth/canva answered 500 and a callback
\* that followed was turned away
C19_Witness ==
    /\ configured.clientId /\ ~configured.clientSecret
    /\ authReply = "auth_500"
    /\ \E p \in CallbackProcs :
          procs[p].pc = "done" /\ procs[p].result = "400_state"

\* the step is the arrival of a successful refresh response at p
RefreshGranted(p) ==
    /\ procs[p].pc \in {"gc_refresh", "rf_wait"}
    /\ procs'[p].pc # procs[p].pc
    /\ issued' = issued + 1

\* C20: updateToken called for an account that has no readable record fails:
\* the request that called it ends with the failure and the credential file
\* is left exactly as it was.
C20_UpdateMissingFails ==
    [][\A p \in Procs :
          (RefreshGranted(p) /\ loadTokens(tokensFile, encKey)[ORG] = NoRecord)
             => /\ tokensFile' = tokensFile
                /\ procs'[p].pc = "done"
                /\ procs'[p].result \in {"503", "500"}
                /\ procs'[p].cause \in {"update_failed", "retry_refresh_failed"}]_vars

\* a refresh was granted after the record had become unreadable
C20_Witness ==
    /\ tokensFile.exists
    /\ loadTokens(tokensFile, encKey)[ORG] = NoRecord
    /\ \E p \in ApiProcs :
          procs[p].pc = "done" /\ procs[p].cause = "update_failed"

\* C21: the credential file is absent or is iv, authentication tag and
\* ciphertext of the JSON text of the whole record map, encrypted under the
\* key the store was constructed with; its ciphertext is never the text itself.
C21_FileAlwaysEncrypted ==
    tokensFile.exists
       => /\ \E iv \in IVs :
               tokensFile = encrypt(JSONstringify(loadTokens(tokensFile, encKey)),
                                    encKey, iv)
          /\ tokensFile.ct = Cipher(encKey, tokensFile.iv, tokensFile.ct.pt)
          /\ tokensFile.authTag = Tag(encKey, tokensFile.iv, tokensFile.ct)
          /\ ~decryptThrows(tokensFile, encKey)

\* the file was written by storeToken and then by updateToken
C21_Witness ==
    /\ tokensFile.exists
    /\ Stored # NoRecord
    /\ \E p \in CallbackProcs : procs[p].wrote
    /\ \E p \in ApiProcs :
          procs[p].via = "near_expiry" /\ procs[p].pc = "api_wait"

\* token payloads as exchangeCodeForToken and refreshAccessToken build them,
\* the refresh token possibly undefined
Payloads ==
    [ present      : {TRUE},
      accessToken  : Grants,
      refreshToken : 0..MaxTokens,
      expiresAt    : {now + e * 1000 : e \in ExpiresInChoices},
      userId       : {"u1", "unknown"},
      scope        : {"", "folder:read"} ]

C23_CallsComplete ==
    \A p \in Procs :
        /\ (procs[p].pc = "cb_exchange") ~> (procs[p].pc # "cb_exchange")
        /\ (procs[p].pc = "gc_refresh") ~> (procs[p].pc # "gc_refresh")
        /\ (procs[p].pc = "rf_wait") ~> (procs[p].pc # "rf_wait")
        /\ (procs[p].pc = "api_wait") ~> (procs[p].pc # "api_wait")

\* the part of C23 the axios timeout gives: an outbound platform call completes
OutboundCallCompletes ==
    \A p \in Procs : (procs[p].pc = "api_wait") ~> (procs[p].pc # "api_wait")

\* C24: a job is created with status artwork_pending and no exports; an
\* export posted with the id of a job appends exactly one record to that job,
\* the one returned to the poster, and sets the job's status to artwork_ready,
\* whether the file was stored or the download failed; a job that is
\* artwork_ready stays so.
C24_JobLifecycle ==
    [][/\ Len(db'.jobs) > Len(db.jobs) =>
             /\ db'.jobs[1].status = "artwork_pending"
             /\ db'.jobs[1].exports = <<>>
             /\ apiReply'.job = db'.jobs[1]
       /\ \A e \in ExportIds :
             (/\ posts[e].pc = "downloading"
              /\ posts'[e].pc = "replied"
              /\ getJob(db, posts[e].jobId) # NullJob) =>
                 /\ posts'[e].record.id = e
                 /\ getJob(db', posts[e].jobId).exports =
                        Append(getJob(db, posts[e].jobId).exports, posts'[e].record)
                 /\ getJob(db', posts[e].jobId).status = "artwork_ready"
       /\ \A j \in JobIds :
             getJob(db, j).status = "artwork_ready" =>
                 getJob(db', j).status = "artwork_ready"]_vars

\* a job made ready by an export whose download failed, then given a second
\* export whose file was stored
C24_Witness ==
    \E j \in JobIds :
        /\ getJob(db, j).status = "artwork_ready"
        /\ Len(getJob(db, j).exports) = 2
        /\ getJob(db, j).exports[1].filePath = 0
        /\ getJob(db, j).exports[2].filePath # 0
        /\ posts[getJob(db, j).exports[2].id].record = getJob(db, j).exports[2]

RequiredIds == {"bleed-check", "safe-zone-check"}

\* C25: in the main view the success state, the one that holds the
\* 'Download Print-Ready PDF' button, is shown exactly when every required
\* check id is among the completed checks; the button is shown nowhere else,
\* and the toggle that completes the required checks shows it. Optional
\* checks, or some of the required ones, never do.
C25_SuccessIffRequiredDone ==
    [][/\ app'.view = "main" =>
             /\ Screen(app') = "SuccessState"
                  <=> \A c \in RequiredIds : Includes(app'.completedChecks, c)
             /\ ExportButtonShows(app') = "Download Print-Ready PDF"
                  => \A c \in RequiredIds : Includes(app'.completedChecks, c)
       /\ (app'.completedChecks # app.completedChecks /\ Screen(app') = "SuccessState")
             => ExportButtonShows(app') = "Download Print-Ready PDF"]_vars

\* the button is shown once an optional check, then the two required ones,
\* were completed
C25_Witness ==
    /\ ExportButtonShows(app) = "Download Print-Ready PDF"
    /\ app.completedChecks = <<"color-mode-check", "safe-zone-check", "bleed-check">>

C27_RetryCarriesRefreshed ==
    [][\A p \in Procs :
          /\ (procs[p].pc = "api_wait" /\ procs'[p].cause = "auth_failed") =>
                procs[p].retry
          /\ (procs[p].pc = "api_wait" /\ procs'[p].pc = "rf_wait") =>
                /\ ~procs[p].retry
                /\ procs'[p].cbCalls = procs[p].cbCalls + 1
                /\ procs'[p].sends = procs[p].sends
          /\ (procs[p].pc = "rf_wait" /\ procs'[p].pc = "api_wait") =>
                /\ issued' = issued + 1
                /\ procs'[p].hdr = issued'
                /\ procs'[p].tok = issued'
                /\ procs'[p].hdr # procs[p].hdr
                /\ procs'[p].sends = procs[p].sends + 1
          /\ (procs[p].pc = "api_wait" /\ procs[p].retry /\ procs'[p].pc = "api_wait") =>
                procs'[p].hdr = procs[p].hdr /\ procs'[p].tok = procs[p].tok]_vars

\* a client built from a record outside the refresh buffer, its request
\* answered 401, re-sent with the token the refresh returned
C27_Witness ==
    \E p \in ApiProcs :
        /\ procs[p].via = "fresh" /\ procs[p].pc = "api_wait"
        /\ procs[p].retry /\ procs[p].rfOk
        /\ procs[p].sends = 2
        /\ procs[p].hdr = issued /\ procs[p].tok = issued
        /\ now + 300000 < Stored.expiresAt

\* C28: when the refresh a 401 triggered fails (the provider grants nothing,
\* or the record cannot be updated), the request is not sent again, the token
\* file and the client's default header stay as they were, and the handler
\* replies with a failure.
C28_FailedRetryRefresh ==
    [][\A p \in Procs :
          (/\ procs[p].pc = "rf_wait" /\ procs'[p].pc # "rf_wait"
           /\ issued' = issued \/ updateTokenThrows(tokensFile, encKey, ORG)) =>
              /\ procs'[p].sends = procs[p].sends
              /\ tokensFile' = tokensFile
              /\ procs'[p].tok = procs[p].tok
              /\ procs'[p].pc = "done"
              /\ procs'[p].result = "500"]_vars

\* a request answered 401 once, its refresh refused, ended with a failure
C28_Witness ==
    \E p \in ApiProcs :
        /\ procs[p].pc = "done" /\ procs[p].result = "500"
        /\ procs[p].cause = "retry_refresh_failed"
        /\ procs[p].sends = 1 /\ procs[p].cbCalls = 1
        /\ procs[p].tok # 0
        /\ Stored # NoRecord /\ Stored.accessToken = procs[p].tok

\* C29: a refresh in flight when deleteToken removes the organization's
\* record does not bring the record back: when it settles on a store without
\* the record, getToken still returns null afterwards.
C29_DeleteNotUndone ==
    [][\A p \in Procs :
          (/\ procs[p].pc \in {"gc_refresh", "rf_wait"}
           /\ procs'[p].pc # procs[p].pc
           /\ Stored = NoRecord) =>
              /\ Stored' = NoRecord
              /\ tokensFile' = tokensFile
              /\ procs'[p].pc = "done"]_vars

\* the refresh getCanvaClient awaited was granted by the provider after the
\* record had been deleted: updateToken threw, the file holds an empty map
C29_Witness ==
    \E p \in ApiProcs :
        /\ procs[p].pc = "done" /\ procs[p].cause = "update_failed"
        /\ issued = 2
        /\ tokensFile.exists /\ ~decryptThrows(tokensFile, encKey)
        /\ Stored = NoRecord

\* C30: each store mutation loads, modifies and saves in one step, so that no
\* write discards a change another mutation committed: when a refresh writes
\* its result with updateToken, the record it replaces still holds the
\* refresh token the refresh was made with, that is, no other mutation has
\* committed new credentials since the writer read the store.
C30_NoLostUpdate ==
    [][\A p \in Procs :
          RefreshWrote(p) => Stored.refreshToken = procs[p].rt]_vars

\* the refresh call of p is in flight
Refreshing(p) == procs[p].pc \in {"gc_refresh", "rf_wait"}

\* C31: a refresh call is sent only by getCanvaClient on reading a record
\* within the buffer of its expiry, or by the interceptor on a 401 to a
\* request not yet retried; the provider grants a refresh only to such a call,
\* and nothing else (the passing of time included) starts one.
C31_RefreshOnlyOnNeed ==
    [][/\ \A p \in Procs :
             /\ (procs'[p].pc = "gc_refresh" /\ procs[p].pc # "gc_refresh") =>
                   /\ procs[p].pc = "idle"
                   /\ Stored # NoRecord
                   /\ now + 300000 >= Stored.expiresAt
                   /\ procs'[p].rt = Stored.refreshToken
             /\ (procs'[p].pc = "rf_wait" /\ procs[p].pc # "rf_wait") =>
                   /\ procs[p].pc = "api_wait"
                   /\ ~procs[p].retry
                   /\ procs[p].sends = 1
                   /\ ~procs'[p].non401
       /\ issued' # issued =>
             \E p \in Procs : /\ Refreshing(p) \/ procs[p].pc = "cb_exchange"
                              /\ procs'[p].pc # procs[p].pc
       /\ now' # now => \A p \in Procs : procs'[p] = procs[p]]_vars

\* time has passed, one request refreshes on a near-expiry read while another
\* refreshes on a 401
C31_Witness ==
    \E p, q \in ApiProcs :
        /\ now = TickMs
        /\ procs[p].pc = "gc_refresh" /\ procs[p].via = "near_expiry"
        /\ procs[q].pc = "rf_wait" /\ procs[q].cbCalls = 1

\* C32: the refresh token a 401-triggered refresh presents to the provider is
\* the one stored for the account at that moment, even when a refresh made
\* since the client was built has replaced it.
C32_RetryPresentsStoredToken ==
    [][\A p \in Procs :
          (procs[p].pc = "api_wait" /\ procs'[p].pc = "rf_wait" /\ Stored # NoRecord)
             => procs'[p].rt = Stored.refreshToken]_vars

\* C33: the requests filterPublicDesigns sends at once through one client
\* carry the same token; when they are answered 401, the client sends at most
\* one refresh call for them.
C33_OneRefreshPerClient == fan.refreshCalls <= 1

\* C34: a credential file the store cannot decrypt is never overwritten by
\* a store operation: while the file on disk fails to decrypt under the
\* server's key, no step replaces it by a file written under that key.
C34_UnreadableFileKept ==
    [][(/\ tokensFile.exists
        /\ decryptThrows(tokensFile, encKey)
        /\ encKey' = encKey)
       => decryptThrows(tokensFile', encKey)]_vars

\* C35: a refresh leaves the stored fields its response does not supply as
\* they were: createdAt is not modified, the stored scope changes only to a
\* scope the response carried, and the stored userId only to a user
\* identifier the response carried.
C35_RefreshKeepsUnsupplied ==
    [][\A p \in Procs :
          (/\ procs[p].pc = "gc_refresh"
           /\ procs'[p].pc = "api_wait"
           /\ Stored # NoRecord)
          => /\ Stored'.createdAt = Stored.createdAt
             /\ (Stored'.scope # Stored.scope => Stored'.scope # "")
             /\ (Stored'.userId # Stored.userId => Stored'.userId # "unknown")]_vars

\* C36: every export record the database holds with a file path is served
\* by GET /api/exports/:id/download, however many exports were recorded
\* after it.
C36_StoredExportDownloadable ==
    \A i \in 1..Len(db.exports) :
        db.exports[i].filePath # 0 => downloadStatus(db, db.exports[i].id) = 200

\* C37: in both versions of App, view = 'main' implies a job is selected, so
\* the 'No job selected' and 'No template selected' fallbacks are never
\* rendered, whatever the sequence of Get Started, select, Change, Back and
\* Start Over and whenever the template copies settle.
C37_MainHasJob ==
    /\ app.view = "main" => app.selectedJob # NoJob
    /\ Screen(app) # "No job selected"
    /\ templateApp.view = "main" => templateApp.selectedJob # NoTemplateJob
    /\ TemplateScreen(templateApp) # "No template selected"

\* the main view of the template-browsing App, entered a second time by a
\* copy that settled after Change, while another copy is still awaited; the
\* job-select App is in its main view too
C37_Witness ==
    /\ templateApp.view = "main"
    /\ templateApp.selectedJob = createJobFromTemplate(2)
    /\ templateApp.copying = {1}
    /\ Len(templateApp.completedChecks) = 1
    /\ app.view = "main"
    /\ app.selectedJob = "letterhead"

\* C38: in the templates view of the template browser, once loading has
\* finished and no templates request is awaited, the templates displayed are
\* those of the selected folder.
C38_TemplatesOfSelectedFolder ==
    (/\ browser.viewState = "templates"
     /\ ~browser.loading
     /\ browser.fetchingTemplates = {})
    => \A t \in browser.templates : t.folderId = browser.selectedFolder.id

\* Spec violates this: the authorized states SpecClient starts in are states
\* Spec reaches through AuthCanva, CallbackStart and CallbackResp
InitClient_Unreached == ~(InitClient /\ issued = 1)

====
